---- MODULE Spec2Model ----
(***************************************************************************)
(* Peer discovery and note synchronisation of src-tauri/src/main.rs.       *)
(*                                                                         *)
(* Two application instances (devices) run the same program.  Every piece  *)
(* of program state is indexed by the device it belongs to.                *)
(*                                                                         *)
(* Text is modelled structurally, so that the formatting and parsing the   *)
(* program does are computed and not assumed:                              *)
(*   - a file name, and a note id (which becomes part of a file name), is  *)
(*     the sequence of its '.'-separated components: "n1.md.sync" is       *)
(*     <<"n1", "md", "sync">>;                                             *)
(*   - a piece of text is the sequence of its lines, a line the sequence   *)
(*     of its ' '-separated words ("" is <<"">>): "# T\n\nx" is            *)
(*     << <<"#","T">>, <<"">>, <<"x">> >>;                                 *)
(*   - a peer id or mDNS name is the sequence of its tokens, "_" and "."   *)
(*     being tokens of their own: "hostA_idA" is <<"hostA","_","idA">>.    *)
(***************************************************************************)
EXTENDS Integers, Sequences, FiniteSets, Bags, TLC

VARIABLES
    notes,      \* per device: notes directory, file name -> text
    atts,       \* per device: notes/attachments, <<note id, file name>> -> bytes
    peers,      \* per device: AppState.peers, a map peer id -> PeerDevice
    notifs,     \* per device: AppState.sync_notifications, a Vec
    proposals,  \* history: per device, the request behind each notification and its origin
    net,        \* spawned HTTP transmissions not yet finished (a bag)
    lastOp,     \* history: per device and peer id, the last registry operation
                \* and whether it emitted peers-updated
    suppressed, \* history: per device, whether it skipped its own service
    staging,    \* per device: /sync/request handlers between their push and their writes
    server,     \* per device: the outcome of the bind loop
    mutex,      \* per device: the task holding the AppState mutex, 0 for none
    tasks,      \* per device: the tasks started, each with its position
    ret         \* history: the result of the last command whose result is recorded

\* Everything but the recorded result
state == <<notes, atts, peers, notifs, proposals, net, lastOp, suppressed,
           staging, server, mutex, tasks>>

vars == <<notes, atts, peers, notifs, proposals, net, lastOp, suppressed,
          staging, server, mutex, tasks, ret>>

-----------------------------------------------------------------------------
(* Bounds of the model *)

\* A device stops taking proposals once it holds this many notifications.
MaxNotifs == 2

\* At most this many spawned transmissions are unfinished at a time.
MaxInFlight == 1

-----------------------------------------------------------------------------
(* Devices and their identity *)

Dev == {"A", "B"}

\* AppState.device_id: a UUID, so a single token
device_id(d) == IF d = "A" THEN <<"idA">> ELSE <<"idB">>

\* AppState.device_name: the host name
device_name(d) == IF d = "A" THEN <<"hostA">> ELSE <<"hostB">>

\* The address the HTTP listener of a device is bound to and advertises
BindInfo(d) ==
    [ip |-> IF d = "A" THEN "10.0.0.1" ELSE "10.0.0.2", port |-> 8000]

LOCALHOST == "127.0.0.1"

\* The networking thread after the bind loop: serving at an address, or ended
\* without one; before the loop has run it is starting
Serving(info) == [status |-> "serving", ip |-> info.ip, port |-> info.port]

BindFailed == [status |-> "failed"]

Starting == [status |-> "starting"]

\* The networking thread has returned after serving: its runtime is dropped,
\* and with it the tasks spawned on it
Ended(info) == [status |-> "ended", ip |-> info.ip, port |-> info.port]

-----------------------------------------------------------------------------
(* Maps with a finite domain: HashMap, and a directory as a map of files *)

\* A write that keeps what is already stored under the key
KeepFirst(m, k, v) == IF k \in DOMAIN m THEN m ELSE (k :> v) @@ m

\* HashMap::insert, and fs::write seen as an insertion into a directory
Put(m, k, v) == (k :> v) @@ m

Remove(m, k) == [x \in DOMAIN m \ {k} |-> m[x]]

EmptyMap == [x \in {} |-> x]

-----------------------------------------------------------------------------
(* Paths *)

\* Path::extension: what follows the last '.', if there is one
extension(f) == IF Len(f) > 1 THEN <<f[Len(f)]>> ELSE <<>>

\* Path::file_stem: what precedes the last '.'
file_stem(f) == IF Len(f) > 1 THEN SubSeq(f, 1, Len(f) - 1) ELSE f

\* get_note_path: notes/{id}.md
get_note_path(id) == id \o <<"md">>

\* format!("{}.sync", s)
DotSync(s) == s \o <<"sync">>

\* format!("{}.md", s)
DotMd(s) == s \o <<"md">>

-----------------------------------------------------------------------------
(* Text of a note *)

\* format!("# {}\n\n{}", title, content)
NoteContent(title, content) == << <<"#">> \o title, <<"">> >> \o content

\* get_notes: the first line as title if it starts with "# "
ParseTitle(content) ==
    IF Len(content) = 1 /\ content[1] = <<"">>
    THEN <<"Untitled">>                     \* lines() of "" yields nothing
    ELSE IF Len(content[1]) >= 2 /\ content[1][1] = "#"
         THEN Tail(content[1])
         ELSE <<"Untitled">>

-----------------------------------------------------------------------------
(* Results of a command: Result<T, String> *)

Ok(v) == [ok |-> TRUE, val |-> v]

\* A recorded return: which command returned what
Returned(command, result) == [command |-> command, result |-> result]

\* No recorded command has returned yet
NoResult == Returned("none", Ok(<<>>))

Err(e) == [ok |-> FALSE, err |-> e]

-----------------------------------------------------------------------------
(* Reading the content store *)

\* The names in notes/attachments/{id}
AttachmentNames(d, id) == {p[2] : p \in {q \in DOMAIN atts[d] : q[1] = id}}

\* get_notes: one Note per file of the notes directory whose extension is md
\* (the Vec is sorted by datetime; the model keeps the set of its elements)
get_notes(d) ==
    {[id          |-> file_stem(f),
      title       |-> ParseTitle(notes[d][f]),
      content     |-> notes[d][f],
      attachments |-> AttachmentNames(d, file_stem(f))]
        : f \in {g \in DOMAIN notes[d] : extension(g) = <<"md">>}}

\* serve_attachment
serve_attachment(d, note_id, file_name) ==
    IF <<note_id, file_name>> \notin DOMAIN atts[d]
    THEN Err("File not found")
    ELSE Ok(atts[d][<<note_id, file_name>>])

\* save_clipboard_image: creates or truncates attachments/{note_id}/{file_name}
save_clipboard_image(d, note_id, file_name, image_data) ==
    /\ atts' = [atts EXCEPT ![d] = Put(@, <<note_id, file_name>>, image_data)]
    /\ UNCHANGED <<notes, peers, notifs, proposals, net, lastOp, suppressed,
                   staging, server, mutex, tasks, ret>>

\* get_peers: the values of the peer map
get_peers(d) == {peers[d][k] : k \in DOMAIN peers[d]}

\* get_sync_notifications: a clone of the Vec
get_sync_notifications(d) == notifs[d]

-----------------------------------------------------------------------------
(* Spawned HTTP transmissions *)

\* format!("http://{}:{}/sync/request", ip, port) and the like
Url(ip, port, path) == [ip |-> ip, port |-> port, path |-> path]

\* A spawn that sends nothing
NoSpawn(d, url, body) == net

\* tokio::spawn of one client.post(url).json(body).send()
Spawn(d, url, body) == net (+) SetToBag({[from |-> d, url |-> url, body |-> body]})

-----------------------------------------------------------------------------
(* POST /sync/request: the inbound handler *)

\* An id source that hands out the same id every time
FixedUuid(d) == <<d, 1>>

\* uuid::Uuid::new_v4(): a value no notification of the device carries yet
NewUuid(d) ==
    LET used == {notifs[d][i].id[2] : i \in 1..Len(notifs[d])}
    IN  <<d, CHOOSE n \in 1..(Len(notifs[d]) + 1) :
                /\ n \notin used
                /\ \A k \in 1..(n - 1) : k \in used>>

\* A lookup that takes every sender for unknown
AlwaysPlaceholder(d, sync_request) ==
    [id   |-> sync_request.peer_id,
     name |-> sync_request.peer_name,
     ip   |-> LOCALHOST,
     port |-> 0]

\* The sender as the notification records it: the registered peer, or a
\* temporary entry with the placeholder address
FromPeer(d, sync_request) ==
    IF sync_request.peer_id \in DOMAIN peers[d]
    THEN peers[d][sync_request.peer_id]
    ELSE [id   |-> sync_request.peer_id,
          name |-> sync_request.peer_name,
          ip   |-> LOCALHOST,
          port |-> 0]

\* The notification the handler pushes
NewNotification(d, sync_request) ==
    [id         |-> NewUuid(d),
     from_peer  |-> FromPeer(d, sync_request),
     note_title |-> sync_request.note.title,
     status     |-> "Pending"]

\* The path of the committed record file, with no .sync suffix
CommittedPath(note_id) == get_note_path(note_id)

\* The staged record: the path of notes/{id}.md with ".sync" appended
StagedPath(note_id) == DotSync(get_note_path(note_id))

\* An attachment store that drops what it is given
KeepAttachments(dir, note_id, attachments_data) == dir

\* fs::write of every entry of attachments_data under attachments/{note.id}
WriteAttachments(dir, note_id, attachments_data) ==
    [p \in DOMAIN dir \cup {<<note_id, n>> : n \in DOMAIN attachments_data} |->
        IF p[1] = note_id /\ p[2] \in DOMAIN attachments_data
        THEN attachments_data[p[2]]
        ELSE dir[p]]

\* via: the device whose transmission carried the request, "env" for others
sync_request_handler(d, sync_request, via) ==
    /\ notifs' = [notifs EXCEPT ![d] = Append(@, NewNotification(d, sync_request))]
    /\ proposals' = [proposals EXCEPT ![d] =
                        Append(@, [request |-> sync_request, via |-> via])]
    /\ notes' = [notes EXCEPT ![d] =
                    Put(@, StagedPath(sync_request.note.id),
                        NoteContent(sync_request.note.title,
                                    sync_request.note.content))]
    /\ atts' = [atts EXCEPT ![d] =
                    WriteAttachments(@, sync_request.note.id,
                                     sync_request.attachments_data)]
    /\ UNCHANGED <<peers, lastOp, suppressed, staging, server, mutex, tasks, ret>>

\* The handler step by step. The mutex is released after the push; the
\* writes that follow take no lock, so commands can run in between.

\* A push that loses the notification
DropNotification(list, notification) == list

\* guard.sync_notifications.push(..)
PushNotification(list, notification) == Append(list, notification)

\* First step: under the mutex, look the peer up and push the notification
handler_push(d, sync_request, via) ==
    LET notification == NewNotification(d, sync_request) IN
    /\ notifs' = [notifs EXCEPT ![d] = PushNotification(@, notification)]
    /\ proposals' = [proposals EXCEPT ![d] =
                        Append(@, [request |-> sync_request, via |-> via])]
    /\ staging' = [staging EXCEPT ![d] =
                      @ \cup {[notification_id |-> notification.id,
                               sync_request    |-> sync_request]}]
    /\ UNCHANGED <<notes, atts, peers, lastOp, suppressed, server, mutex, tasks, ret>>

\* Writes that are given up as soon as one fails
AllOrNothing(attachments_data, written) ==
    IF written = DOMAIN attachments_data THEN attachments_data ELSE EmptyMap

\* The entries of attachments_data whose fs::write succeeds
Written(attachments_data, written) == [n \in written |-> attachments_data[n]]

\* The JSON body the handler answers with
sync_request_ack == [success |-> TRUE]

\* Second step: the record file and the attachment files are written, each
\* write failing or succeeding on its own (a failure is logged); then the
\* handler answers. The writes are taken as one step.
handler_write(d, h, record_ok, written) ==
    LET note == h.sync_request.note IN
    /\ notes' = [notes EXCEPT ![d] =
                    IF record_ok
                    THEN Put(@, StagedPath(note.id), NoteContent(note.title, note.content))
                    ELSE @]
    /\ atts' = [atts EXCEPT ![d] =
                   WriteAttachments(@, note.id,
                                    Written(h.sync_request.attachments_data, written))]
    /\ staging' = [staging EXCEPT ![d] = @ \ {h}]
    /\ UNCHANGED <<peers, notifs, proposals, lastOp, suppressed, server, mutex, tasks>>

-----------------------------------------------------------------------------
(* respond_to_sync *)

\* String::new()
EmptyString == <<"">>

\* The directory scan: the stem of the first entry whose extension is sync,
\* in whatever order read_dir lists the directory; "" when there is none
ScannedNoteIds(d) ==
    LET found == {file_stem(f) :
                    f \in {g \in DOMAIN notes[d] : extension(g) = <<"sync">>}}
    IN  IF found = {} THEN {EmptyString} ELSE found

\* A lookup that takes an unknown id for the first notification
FirstPosition(d, notification_id) == IF Len(notifs[d]) = 0 THEN 0 ELSE 1

\* .position(|n| n.id == notification_id), 0 for None
Position(d, notification_id) ==
    LET hits == {i \in 1..Len(notifs[d]) : notifs[d][i].id = notification_id}
    IN  IF hits = {} THEN 0
        ELSE CHOOSE i \in hits : \A j \in hits : i <= j

\* A decision that reopens a notification already decided
Reopen(notification, accept) ==
    [notification EXCEPT !.status =
        IF @ = "Pending" THEN (IF accept THEN "Accepted" ELSE "Rejected")
        ELSE "Pending"]

\* notification.status = if accept { Accepted } else { Rejected }
Resolve(notification, accept) ==
    [notification EXCEPT !.status = IF accept THEN "Accepted" ELSE "Rejected"]

\* accept: fs::rename of {note_id}.sync to {note_id}.md when the former exists
Promote(dir, note_id) ==
    IF DotSync(note_id) \in DOMAIN dir
    THEN Put(Remove(dir, DotSync(note_id)), DotMd(note_id), dir[DotSync(note_id)])
    ELSE dir

\* reject: fs::remove_file of {note_id}.sync when it exists
Discard(dir, note_id) == Remove(dir, DotSync(note_id))

\* reject: fs::remove_dir_all of attachments/{note_id}
RemoveAttachmentsDir(dir, note_id) ==
    [p \in {q \in DOMAIN dir : q[1] # note_id} |-> dir[p]]

\* What the command returns
respond_to_sync_result(d, notification_id, accept) ==
    IF Position(d, notification_id) = 0
    THEN Err("Notification not found")
    ELSE Ok(<<>>)

\* The body of the command once the notification is found, note_id being what
\* the directory scan yielded
RespondFound(d, i, notification_id, accept, note_id) ==
    LET peer == notifs[d][i].from_peer IN
    /\ notifs' = [notifs EXCEPT ![d][i] = Resolve(@, accept)]
    /\ IF accept /\ note_id # EmptyString
       THEN /\ notes' = [notes EXCEPT ![d] = Promote(@, note_id)]
            /\ UNCHANGED atts
       ELSE IF note_id # EmptyString
       THEN /\ notes' = [notes EXCEPT ![d] = Discard(@, note_id)]
            /\ atts' = [atts EXCEPT ![d] = RemoveAttachmentsDir(@, note_id)]
       ELSE UNCHANGED <<notes, atts>>
    /\ net' = Spawn(d, Url(peer.ip, peer.port, "/sync/response"),
                    [notification_id |-> notification_id, accepted |-> accept])
    /\ UNCHANGED <<peers, proposals, lastOp, suppressed, staging, server, mutex, tasks>>

respond_to_sync(d, notification_id, accept) ==
    IF ~respond_to_sync_result(d, notification_id, accept).ok
    THEN UNCHANGED state
    ELSE \E note_id \in ScannedNoteIds(d) :
            RespondFound(d, Position(d, notification_id), notification_id,
                         accept, note_id)

-----------------------------------------------------------------------------
(* share_notes *)

\* The attachments of a note that exist and can be read, name -> bytes
ReadAttachments(d, note) ==
    [n \in {m \in note.attachments : <<note.id, m>> \in DOMAIN atts[d]} |->
        atts[d][<<note.id, n>>]]

\* A request that names the other device as its sender
BuildRequestAsPeer(d, note) ==
    LET e == CHOOSE x \in Dev : x # d IN
    [peer_id          |-> device_id(e),
     peer_name        |-> device_name(e),
     note             |-> note,
     attachments_data |-> ReadAttachments(d, note)]

\* The SyncRequest built for one note: the sender is this device
BuildSyncRequest(d, note) ==
    [peer_id          |-> device_id(d),
     peer_name        |-> device_name(d),
     note             |-> note,
     attachments_data |-> ReadAttachments(d, note)]

\* all_notes.iter().find(|n| n.id == note_id)
FindNote(all_notes, note_id) == {n \in all_notes : n.id = note_id}

\* A loop that gives up at the first id that is not found
RECURSIVE RequestsUntilMissing(_, _, _)
RequestsUntilMissing(d, all_notes, note_ids) ==
    IF note_ids = <<>> THEN <<>>
    ELSE LET found == FindNote(all_notes, Head(note_ids))
         IN  IF found = {} THEN <<>>
             ELSE <<BuildSyncRequest(d, CHOOSE n \in found : TRUE)>>
                    \o RequestsUntilMissing(d, all_notes, Tail(note_ids))

\* The loop over note_ids: one request per id that is found, in order
RECURSIVE RequestsFor(_, _, _)
RequestsFor(d, all_notes, note_ids) ==
    IF note_ids = <<>> THEN <<>>
    ELSE LET found == FindNote(all_notes, Head(note_ids))
             rest  == RequestsFor(d, all_notes, Tail(note_ids))
         IN  IF found = {} THEN rest
             ELSE <<BuildSyncRequest(d, CHOOSE n \in found : TRUE)>> \o rest

\* One spawned transmission per request
RECURSIVE SpawnAll(_, _, _, _)
SpawnAll(bag, d, url, bodies) ==
    IF bodies = <<>> THEN bag
    ELSE SpawnAll(bag (+) SetToBag({[from |-> d, url |-> url, body |-> Head(bodies)]}),
                  d, url, Tail(bodies))

\* A lookup that falls back on some registered peer
AnyPeer(registry, peer_id) ==
    IF peer_id \in DOMAIN registry THEN {registry[peer_id]}
    ELSE {registry[k] : k \in DOMAIN registry}

\* app_state.peers.get(&peer_id).cloned(): the peer, if there is one
peers_get(registry, peer_id) ==
    IF peer_id \in DOMAIN registry THEN {registry[peer_id]} ELSE {}

\* What the command returns
share_notes_result(d, note_ids, peer_id) ==
    IF peers_get(peers[d], peer_id) = {}
    THEN Err("Peer not found")
    ELSE Ok(<<>>)

share_notes(d, note_ids, peer_id) ==
    IF ~share_notes_result(d, note_ids, peer_id).ok
    THEN UNCHANGED state
    ELSE LET peer     == CHOOSE p \in peers_get(peers[d], peer_id) : TRUE
             url      == Url(peer.ip, peer.port, "/sync/request")
             requests == RequestsFor(d, get_notes(d), note_ids)
         IN  /\ net' = SpawnAll(net, d, url, requests)
             /\ UNCHANGED <<notes, atts, peers, notifs, proposals, lastOp, suppressed,
                            staging, server, mutex, tasks>>

\* share_note: the result it returns
share_note_result(d, note_id, peer_id) ==
    IF peers_get(peers[d], peer_id) = {} THEN Err("Peer not found")
    ELSE IF FindNote(get_notes(d), note_id) = {} THEN Err("Note not found")
    ELSE Ok(<<>>)

\* share_note: one request for one note, spawned before Ok(()) is returned
share_note(d, note_id, peer_id) ==
    IF ~share_note_result(d, note_id, peer_id).ok
    THEN UNCHANGED state
    ELSE LET peer == CHOOSE p \in peers_get(peers[d], peer_id) : TRUE
             note == CHOOSE n \in FindNote(get_notes(d), note_id) : TRUE
         IN  /\ net' = Spawn(d, Url(peer.ip, peer.port, "/sync/request"),
                             BuildSyncRequest(d, note))
             /\ UNCHANGED <<notes, atts, peers, notifs, proposals, lastOp, suppressed,
                            staging, server, mutex, tasks>>

-----------------------------------------------------------------------------
(* Discovery: the mDNS service and the event loop *)

service_type == <<"_", "notes-sync", ".", "_", "tcp", ".", "local", ".">>

\* format!("{}_{}", device_name, device_id)
instance_name(d) == device_name(d) \o <<"_">> \o device_id(d)

\* The full name under which mDNS knows a registered instance, and by which
\* the ServiceRemoved event names it: the instance name, ".", the service type
Fullname(instance) == instance \o <<".">> \o service_type

\* ServiceInfo::new(service_type, &instance_name, .., ipv4_addr, bound_port, properties)
OwnServiceInfo(d) ==
    [fullname   |-> Fullname(instance_name(d)),
     properties |-> ("id" :> device_id(d)) @@ ("name" :> device_name(d)),
     addresses  |-> {BindInfo(d).ip},
     port       |-> BindInfo(d).port]

\* instance_name.split('_').last()
SplitLast(s) ==
    LET at == {i \in 1..Len(s) : s[i] = "_"}
    IN  IF at = {} THEN s
        ELSE SubSeq(s, (CHOOSE i \in at : \A j \in at : j <= i) + 1, Len(s))

\* An insertion that keeps the entry already present
InsertIfAbsent(registry, peer_id, peer) ==
    IF peer_id \in DOMAIN registry THEN registry ELSE Put(registry, peer_id, peer)

\* state.peers.insert(peer_id, peer)
peers_insert(registry, peer_id, peer) == Put(registry, peer_id, peer)

\* state.peers.remove(&peer_id)
peers_remove(registry, peer_id) == Remove(registry, peer_id)

\* The skip test without the comparison against the own id
SkippedWithoutSelf(d, info) ==
    \/ "id" \notin DOMAIN info.properties
    \/ info.addresses = {}

\* Whether a resolved service is skipped: no id property, our own id, or no
\* address
Skipped(d, info) ==
    \/ "id" \notin DOMAIN info.properties
    \/ info.properties["id"] = device_id(d)
    \/ info.addresses = {}

\* A removal that emits peers-updated whether or not a peer was removed
EmitsAlways(removed) == TRUE

\* if removed { emit("peers-updated") }
EmitsIfRemoved(removed) == removed

\* The PeerDevice built from a resolved service and one of its addresses
ResolvedPeer(info, addr) ==
    [id   |-> info.properties["id"],
     name |-> IF "name" \in DOMAIN info.properties
              THEN info.properties["name"]
              ELSE <<"Unknown">>,
     ip   |-> addr,
     port |-> info.port]

\* Ok(ServiceEvent::ServiceResolved(info)); addr is whichever address the
\* iteration over the address set yields first
ServiceResolved(d, info) ==
    IF Skipped(d, info)
    THEN /\ suppressed' = [suppressed EXCEPT ![d] =
                               @ \/ (/\ "id" \in DOMAIN info.properties
                                     /\ info.properties["id"] = device_id(d))]
         /\ UNCHANGED <<notes, atts, peers, notifs, proposals, net, lastOp,
                        staging, server, mutex, tasks, ret>>
    ELSE \E addr \in info.addresses :
         LET peer == ResolvedPeer(info, addr) IN
         /\ peers' = [peers EXCEPT ![d] = peers_insert(@, peer.id, peer)]
         /\ lastOp' = [lastOp EXCEPT ![d] =
                          (peer.id :> [kind |-> "upsert", peer |-> peer,
                                       emitted |-> TRUE]) @@ @]
         /\ UNCHANGED <<notes, atts, notifs, proposals, net, suppressed,
                        staging, server, mutex, tasks, ret>>

\* Ok(ServiceEvent::ServiceRemoved(_service_type, instance_name))
ServiceRemoved(d, name) ==
    LET peer_id == SplitLast(name) IN
    /\ peers' = [peers EXCEPT ![d] = peers_remove(@, peer_id)]
    /\ lastOp' = [lastOp EXCEPT ![d] =
                     (peer_id :> [kind |-> "remove",
                                  present |-> peer_id \in DOMAIN peers[d],
                                  emitted |-> EmitsIfRemoved(peer_id \in DOMAIN peers[d])])
                     @@ @]
    /\ UNCHANGED <<notes, atts, notifs, proposals, net, suppressed,
                   staging, server, mutex, tasks, ret>>

-----------------------------------------------------------------------------
(* POST /sync/response: emits the sync-response event, changes no state *)

sync_response_handler(d, response) ==
    UNCHANGED <<notes, atts, peers, notifs, proposals, lastOp, suppressed,
                staging, server, mutex, tasks, ret>>

-----------------------------------------------------------------------------
(* What the devices start with and what reaches them *)

\* In the runs explored device A shares its notes and device B receives
Sender == "A"

Receiver == "B"

Png1 == <<137, 80>>

Png2 == <<255, 0>>

Png3 == <<7>>

\* The notes directory as earlier runs of save_note and save_clipboard_image
\* left it: device A holds two notes with an attachment each, device B holds
\* a note n1 of its own
InitialNotes ==
    [A |-> (<<"n1", "md">> :> NoteContent(<<"T">>, << <<"x">> >>))
           @@ (<<"n2", "md">> :> NoteContent(<<"U">>, << <<"y">> >>)),
     B |-> (<<"n1", "md">> :> NoteContent(<<"V">>, << <<"z">> >>))]

InitialAttachments ==
    [A |-> (<< <<"n1">>, "img.png" >> :> Png1)
           @@ (<< <<"n2">>, "img.png" >> :> Png3),
     B |-> (<< <<"n1">>, "img.png" >> :> Png2)]

\* Proposals posted to the receiver: what the sender's share_notes builds from
\* its notes, and one from a host that is none of the modelled devices, for
\* the record id n1 as well
EnvRequests ==
    {BuildSyncRequest(Sender, n) : n \in get_notes(Sender)}
    \cup
    {[peer_id   |-> <<"idX">>,
      peer_name |-> <<"hostX">>,
      note      |-> [id |-> <<"n1">>, title |-> <<"W">>,
                     content |-> NoteContent(<<"W">>, << <<"w">> >>),
                     attachments |-> {"img.png", "doc.png"}],
      attachments_data |-> ("img.png" :> Png3) @@ ("doc.png" :> Png1)]}

\* Services the browser may resolve: those of the devices, and others seen on
\* the network (device A on another port, a service whose id property is
\* "tcp.local.", one without id property, one without address, one without
\* name property and with two addresses)
ServiceInfos ==
    {OwnServiceInfo(d) : d \in Dev}
    \cup {[OwnServiceInfo("A") EXCEPT !.port = 8001],
          [fullname   |-> Fullname(<<"hostY", "_", "tcp", ".", "local", ".">>),
           properties |-> ("id" :> <<"tcp", ".", "local", ".">>) @@ ("name" :> <<"hostY">>),
           addresses  |-> {"10.0.0.3"},
           port       |-> 8000],
          [fullname   |-> Fullname(<<"hostZ", "_", "idZ">>),
           properties |-> ("name" :> <<"hostZ">>),
           addresses  |-> {"10.0.0.4"},
           port       |-> 8000],
          [fullname   |-> Fullname(<<"hostZ", "_", "idZ">>),
           properties |-> ("id" :> <<"idZ">>) @@ ("name" :> <<"hostZ">>),
           addresses  |-> {},
           port       |-> 8000],
          [fullname   |-> Fullname(<<"hostW", "_", "idW">>),
           properties |-> ("id" :> <<"idW">>),
           addresses  |-> {"10.0.0.5", "10.0.0.6"},
           port       |-> 8019]}

\* Arguments the UI passes to share_notes
ShareNoteIds == {<< <<"n3">>, <<"n1">> >>}

SharePeerIds == {device_id(d) : d \in Dev}

\* Arguments the UI passes to respond_to_sync
RespondIds(d) == {notifs[d][i].id : i \in 1..Len(notifs[d])} \cup {<<d, 0>>}

-----------------------------------------------------------------------------
(* The system *)

Init ==
    /\ notes = InitialNotes
    /\ atts = InitialAttachments
    /\ peers = [d \in Dev |-> EmptyMap]
    /\ notifs = [d \in Dev |-> <<>>]
    /\ proposals = [d \in Dev |-> <<>>]
    /\ net = EmptyBag
    /\ lastOp = [d \in Dev |-> EmptyMap]
    /\ suppressed = [d \in Dev |-> FALSE]
    /\ staging = [d \in Dev |-> {}]
    /\ server = [d \in Dev |-> Serving(BindInfo(d))]
    /\ mutex = [d \in Dev |-> 0]
    /\ tasks = [d \in Dev |-> <<>>]
    /\ ret = NoResult

\* A transmission reaches the device listening at its address
Listener(url) == {e \in Dev : BindInfo(e).ip = url.ip /\ BindInfo(e).port = url.port}

\* The receiver discovers the sender
DiscoverSender == ServiceResolved(Receiver, OwnServiceInfo(Sender))

EnvRequest ==
    \E req \in EnvRequests :
        /\ Len(notifs[Receiver]) < MaxNotifs
        /\ sync_request_handler(Receiver, req, "env")
        /\ UNCHANGED net

Respond ==
    \E accept \in BOOLEAN, notification_id \in RespondIds(Receiver) :
        /\ BagCardinality(net) < MaxInFlight
        /\ respond_to_sync(Receiver, notification_id, accept)
        /\ UNCHANGED ret

DeliverResponse ==
    \E m \in BagToSet(net), e \in Dev :
        /\ m.url.path = "/sync/response"
        /\ e \in Listener(m.url)
        /\ sync_response_handler(e, m.body)
        /\ net' = net (-) SetToBag({m})

\* A failure that takes every other transmission down with it
AbortAll ==
    /\ net # EmptyBag
    /\ net' = EmptyBag
    /\ UNCHANGED <<notes, atts, peers, notifs, proposals, lastOp, suppressed,
                   staging, server, mutex, tasks, ret>>

\* A send that times out or is refused: logged, nothing else
TransmissionFails ==
    \E m \in BagToSet(net) :
        /\ net' = net (-) SetToBag({m})
        /\ UNCHANGED <<notes, atts, peers, notifs, proposals, lastOp, suppressed,
                       staging, server, mutex, tasks, ret>>

\* The receiving side: proposals arrive, the user decides
Next ==
    \/ DiscoverSender
    \/ EnvRequest
    \/ Respond
    \/ DeliverResponse
    \/ TransmissionFails

Spec == Init /\ [][Next]_vars

\* End to end: the devices discover each other, the sender shares, the
\* receiver takes the proposals and the user decides
Discover ==
    \E d \in Dev : \E e \in Dev \ {d} : ServiceResolved(d, OwnServiceInfo(e))

Share ==
    \E note_ids \in ShareNoteIds, peer_id \in SharePeerIds :
        /\ BagCardinality(net)
             + Len(RequestsFor(Sender, get_notes(Sender), note_ids)) <= MaxInFlight
        /\ share_notes(Sender, note_ids, peer_id)
        /\ UNCHANGED ret

\* A delivery after which the transmission sends again
DeliverAndResend ==
    \E m \in BagToSet(net), e \in Dev :
        /\ m.url.path = "/sync/request"
        /\ e \in Listener(m.url)
        /\ Len(notifs[e]) < MaxNotifs
        /\ sync_request_handler(e, m.body, m.from)
        /\ UNCHANGED net

\* A spawned /sync/request transmission does its one send and ends
DeliverRequest ==
    \E m \in BagToSet(net), e \in Dev :
        /\ m.url.path = "/sync/request"
        /\ e \in Listener(m.url)
        /\ Len(notifs[e]) < MaxNotifs
        /\ sync_request_handler(e, m.body, m.from)
        /\ net' = net (-) SetToBag({m})

\* The sender's user pastes another image under the name of an attachment
PasteImage == save_clipboard_image(Sender, <<"n1">>, "img.png", Png2)

NextShare ==
    \/ Discover
    \/ PasteImage
    \/ Share
    \/ DeliverRequest
    \/ Respond
    \/ DeliverResponse
    \/ TransmissionFails

SpecShare == Init /\ [][NextShare]_vars

\* The discovery loop alone, fed every service of ServiceInfos
Resolved ==
    \E d \in Dev, info \in ServiceInfos : ServiceResolved(d, info)

Removed ==
    \E d \in Dev, info \in ServiceInfos : ServiceRemoved(d, info.fullname)

NextDiscovery ==
    \/ Resolved
    \/ Removed

SpecDiscovery == Init /\ [][NextDiscovery]_vars

-----------------------------------------------------------------------------
(* The commands with their results recorded *)

\* Transmissions the runs with recorded results keep in flight at most
MaxOutbound == 2

\* Arguments the UI passes to share_notes and share_note in these runs: a
\* batch with a missing id in the middle, and a batch of missing ids only
CallNoteIds == {<< <<"n1">>, <<"n3">>, <<"n2">> >>, << <<"n3">> >>}

CallNoteId == {<<"n1">>, <<"n3">>}

ShareNotesCall ==
    \E note_ids \in CallNoteIds, peer_id \in SharePeerIds :
        /\ BagCardinality(net)
             + Len(RequestsFor(Sender, get_notes(Sender), note_ids)) <= MaxOutbound
        /\ share_notes(Sender, note_ids, peer_id)
        /\ ret' = Returned("share_notes", share_notes_result(Sender, note_ids, peer_id))

ShareNoteCall ==
    \E note_id \in CallNoteId, peer_id \in SharePeerIds :
        /\ BagCardinality(net) < MaxOutbound
        /\ share_note(Sender, note_id, peer_id)
        /\ ret' = Returned("share_note", share_note_result(Sender, note_id, peer_id))

NextCalls ==
    \/ Discover
    \/ ShareNotesCall
    \/ ShareNoteCall
    \/ DeliverRequest
    \/ TransmissionFails

SpecCalls == Init /\ [][NextCalls]_vars

-----------------------------------------------------------------------------
(* The receiver with the handler taken step by step and results recorded *)

\* Proposals the step-by-step runs take in
MaxStaged == 1

Push ==
    \E req \in EnvRequests :
        /\ Len(notifs[Receiver]) < MaxStaged
        /\ handler_push(Receiver, req, "env")
        /\ UNCHANGED net

Write ==
    \E h \in staging[Receiver], record_ok \in BOOLEAN :
        \E written \in SUBSET DOMAIN h.sync_request.attachments_data :
            /\ handler_write(Receiver, h, record_ok, written)
            /\ ret' = Returned("/sync/request", Ok(sync_request_ack))
            /\ UNCHANGED net

RespondCall ==
    \E accept \in BOOLEAN, notification_id \in RespondIds(Receiver) :
        /\ BagCardinality(net) < MaxInFlight
        /\ respond_to_sync(Receiver, notification_id, accept)
        /\ ret' = Returned("respond_to_sync",
                           respond_to_sync_result(Receiver, notification_id, accept))

NextInbound ==
    \/ Push
    \/ Write
    \/ RespondCall
    \/ TransmissionFails

SpecInbound == Init /\ [][NextInbound]_vars

-----------------------------------------------------------------------------
(* Start-up: the networking thread binds a listener, or ends without one *)

\* save_note: fs::write of "# {title}\n\n{content}" to the note path
save_note(d, note) ==
    /\ notes' = [notes EXCEPT ![d] =
                    Put(@, get_note_path(note.id),
                        NoteContent(note.title, note.content))]
    /\ UNCHANGED <<atts, peers, notifs, proposals, net, lastOp, suppressed,
                   staging, server, mutex, tasks>>

\* delete_note: removes the note file and the attachments directory, each
\* if it exists
delete_note(d, note_id) ==
    /\ notes' = [notes EXCEPT ![d] = Remove(@, get_note_path(note_id))]
    /\ atts' = [atts EXCEPT ![d] = RemoveAttachmentsDir(@, note_id)]
    /\ UNCHANGED <<peers, notifs, proposals, net, lastOp, suppressed,
                   staging, server, mutex, tasks>>

\* local_ip() returned Err
NoLocalIp == "none"

UNSPECIFIED == "0.0.0.0"

\* for port in 8000..8020: the upper end is excluded
Ports == 8000..8019

\* The addresses one iteration of the loop tries to bind, in order, each with
\* the address kept in bound_ip when the bind succeeds
Attempts(local) ==
    (IF local = NoLocalIp THEN <<>> ELSE <<[bind |-> local, bound_ip |-> local]>>)
    \o <<[bind |-> LOCALHOST, bound_ip |-> LOCALHOST],
         [bind |-> UNSPECIFIED, bound_ip |-> LOCALHOST]>>

\* A loop that goes through the addresses first and the ports second
bind_loop_by_address(local, free) ==
    LET Binds(i) == {port \in Ports :
                        [ip |-> Attempts(local)[i].bind, port |-> port] \in free}
        usable == {i \in 1..Len(Attempts(local)) : Binds(i) # {}}
    IN  IF usable = {}
        THEN BindFailed
        ELSE LET first == CHOOSE i \in usable : \A j \in usable : i <= j
                 bound_port == CHOOSE p \in Binds(first) : \A q \in Binds(first) : p <= q
             IN  Serving([ip |-> Attempts(local)[first].bound_ip, port |-> bound_port])

\* The bind loop: free is the set of socket addresses TcpListener::bind
\* succeeds on. The first port with a successful attempt wins, and on it the
\* first successful attempt; with none, the thread returns.
bind_loop(local, free) ==
    LET Binds(port) == {i \in 1..Len(Attempts(local)) :
                           [ip |-> Attempts(local)[i].bind, port |-> port] \in free}
        bindable == {port \in Ports : Binds(port) # {}}
    IN  IF bindable = {}
        THEN BindFailed
        ELSE LET bound_port == CHOOSE p \in bindable : \A q \in bindable : p <= q
                 first == CHOOSE i \in Binds(bound_port) :
                              \A j \in Binds(bound_port) : i <= j
             IN  Serving([ip |-> Attempts(local)[first].bound_ip, port |-> bound_port])

\* A thread that runs the router and the browse loop whatever the bind loop
\* gave
AlwaysListening(d) == TRUE

\* The router and the browse loop of a device exist only past the return
\* that ends the thread when no listener was bound
Listening(d) == server[d].status = "serving"

\* mdns.register(service_info): the services a device has registered, with
\* the address and port its listener was bound to. Other devices may go on
\* resolving a service after the thread that registered it has returned.
mdns_registered(d) ==
    IF server[d].status \in {"serving", "ended"}
    THEN {[OwnServiceInfo(d) EXCEPT !.addresses = {server[d].ip},
                                    !.port = server[d].port]}
    ELSE {}

\* What the operating system lets a device bind: its LAN address on the
\* first port, the loopback address on a later port, the unspecified address
\* on the last port of the range, the unspecified address past the range, or
\* nothing
BindEnvs(d) ==
    {[local |-> BindInfo(d).ip, free |-> {BindInfo(d), [ip |-> LOCALHOST, port |-> 8000]}],
     [local |-> BindInfo(d).ip, free |-> {[ip |-> LOCALHOST, port |-> 8003],
                                          [ip |-> UNSPECIFIED, port |-> 8003],
                                          [ip |-> BindInfo(d).ip, port |-> 8004]}],
     [local |-> NoLocalIp, free |-> {[ip |-> UNSPECIFIED, port |-> 8019]}],
     [local |-> NoLocalIp, free |-> {[ip |-> BindInfo(d).ip, port |-> 8000],
                                     [ip |-> UNSPECIFIED, port |-> 8020]}],
     [local |-> BindInfo(d).ip, free |-> {}]}

\* Notes the UI saves and ids it deletes in these runs
SavedNotes ==
    {[id |-> <<"n4">>, title |-> <<"S">>, content |-> << <<"s">> >>,
      attachments |-> {}]}

DeletedIds == {<<"n1">>}

InitStartup ==
    /\ notes = InitialNotes
    /\ atts = InitialAttachments
    /\ peers = [d \in Dev |-> EmptyMap]
    /\ notifs = [d \in Dev |-> <<>>]
    /\ proposals = [d \in Dev |-> <<>>]
    /\ net = EmptyBag
    /\ lastOp = [d \in Dev |-> EmptyMap]
    /\ suppressed = [d \in Dev |-> FALSE]
    /\ staging = [d \in Dev |-> {}]
    /\ server = [d \in Dev |-> Starting]
    /\ mutex = [d \in Dev |-> 0]
    /\ tasks = [d \in Dev |-> <<>>]
    /\ ret = NoResult

Bind ==
    \E d \in Dev :
        \E env \in BindEnvs(d) :
            /\ server[d] = Starting
            /\ server' = [server EXCEPT ![d] = bind_loop(env.local, env.free)]
            /\ UNCHANGED <<notes, atts, peers, notifs, proposals, net, lastOp,
                           suppressed, staging, mutex, tasks, ret>>

Browse ==
    \E d \in Dev, e \in Dev :
        \E info \in mdns_registered(e) :
            /\ Listening(d)
            /\ ServiceResolved(d, info)

\* The proposal posted to a listening device in these runs
StartupRequests == {req \in EnvRequests : req.peer_id = <<"idX">>}

RequestAt(d) ==
    \E req \in StartupRequests :
        /\ Listening(d)
        /\ Len(notifs[d]) < MaxStaged
        /\ sync_request_handler(d, req, "env")
        /\ UNCHANGED net

Request == \E d \in Dev : RequestAt(d)

\* browser.recv() returns Err: the loop breaks, the async block ends,
\* block_on returns and the thread's closure ends, dropping the runtime rt on
\* which the HTTP server task was spawned
StreamError ==
    \E d \in Dev :
        /\ Listening(d)
        /\ server' = [server EXCEPT ![d] = Ended(@)]
        /\ UNCHANGED <<notes, atts, peers, notifs, proposals, net, lastOp,
                       suppressed, staging, mutex, tasks, ret>>

SaveNote(d) ==
    \E note \in SavedNotes :
        /\ save_note(d, note)
        /\ UNCHANGED ret

DeleteNote(d) ==
    \E note_id \in DeletedIds :
        /\ delete_note(d, note_id)
        /\ UNCHANGED ret

Save == \E d \in Dev : SaveNote(d)

Delete == \E d \in Dev : DeleteNote(d)

NextStartup ==
    \/ Bind
    \/ Browse
    \/ Request
    \/ StreamError
    \/ Save
    \/ Delete

SpecStartup == InitStartup /\ [][NextStartup]_vars

-----------------------------------------------------------------------------
(* The AppState mutex: handlers and commands as tasks that take and release it *)

\* Tasks a device runs in these runs
MaxTasks == 3

\* A mutex that excludes nobody
AlwaysFree(d) == TRUE

\* state.lock() returns once no other task holds the guard
Free(d) == mutex[d] = 0

\* The steps during which a task scans a directory or reads or writes files
IoSteps == {"scan", "write", "files"}

\* POST /sync/request, entering the block under the mutex: the task takes the
\* lock, looks the sender up and reads the notifications it will push onto
handler_lock(d, sync_request) ==
    /\ Free(d)
    /\ mutex' = [mutex EXCEPT ![d] = Len(tasks[d]) + 1]
    /\ tasks' = [tasks EXCEPT ![d] =
                    Append(@, [kind         |-> "handler",
                               pc           |-> "push",
                               sync_request |-> sync_request,
                               peer         |-> FromPeer(d, sync_request),
                               seen         |-> notifs[d]])]
    /\ UNCHANGED <<notes, atts, peers, notifs, proposals, net, lastOp,
                   suppressed, staging, server, ret>>

\* guard.sync_notifications.push(..) and the end of the block, where the
\* guard is dropped
handler_store(d, t) ==
    LET task == tasks[d][t]
        notification == [id         |-> NewUuid(d),
                         from_peer  |-> task.peer,
                         note_title |-> task.sync_request.note.title,
                         status     |-> "Pending"]
    IN  /\ task.kind = "handler"
        /\ task.pc = "push"
        /\ notifs' = [notifs EXCEPT ![d] = PushNotification(task.seen, notification)]
        /\ proposals' = [proposals EXCEPT ![d] =
                            Append(@, [request |-> task.sync_request, via |-> "env"])]
        /\ mutex' = [mutex EXCEPT ![d] = 0]
        /\ tasks' = [tasks EXCEPT ![d][t].pc = "write"]
        /\ UNCHANGED <<notes, atts, peers, net, lastOp, suppressed, staging,
                       server, ret>>

\* The staged record and the attachments are written, with no lock held
handler_files(d, t) ==
    LET task == tasks[d][t]
        note == task.sync_request.note
    IN  /\ task.kind = "handler"
        /\ task.pc = "write"
        /\ notes' = [notes EXCEPT ![d] =
                        Put(@, StagedPath(note.id),
                            NoteContent(note.title, note.content))]
        /\ atts' = [atts EXCEPT ![d] =
                       WriteAttachments(@, note.id, task.sync_request.attachments_data)]
        /\ tasks' = [tasks EXCEPT ![d][t].pc = "done"]
        /\ UNCHANGED <<peers, notifs, proposals, net, lastOp, suppressed,
                       staging, server, mutex, ret>>

\* respond_to_sync, entering its block: the task takes the lock and looks the
\* notification up; when there is none, `?` returns and drops the guard
respond_lock(d, notification_id, accept) ==
    LET pos == Position(d, notification_id) IN
    /\ Free(d)
    /\ mutex' = [mutex EXCEPT ![d] = IF pos = 0 THEN @ ELSE Len(tasks[d]) + 1]
    /\ tasks' = [tasks EXCEPT ![d] =
                    Append(@, [kind            |-> "respond",
                               pc              |-> IF pos = 0 THEN "done" ELSE "scan",
                               notification_id |-> notification_id,
                               accept          |-> accept,
                               pos             |-> pos,
                               note_id         |-> EmptyString])]
    /\ UNCHANGED <<notes, atts, peers, notifs, proposals, net, lastOp,
                   suppressed, staging, server, ret>>

\* get_notes_dir and fs::read_dir inside the block: the scan for a .sync file
respond_scan(d, t) ==
    LET task == tasks[d][t] IN
    /\ task.kind = "respond"
    /\ task.pc = "scan"
    /\ \E note_id \in ScannedNoteIds(d) :
           tasks' = [tasks EXCEPT ![d][t].pc = "status", ![d][t].note_id = note_id]
    /\ UNCHANGED <<notes, atts, peers, notifs, proposals, net, lastOp,
                   suppressed, staging, server, mutex, ret>>

\* notification.status = .. and the end of the block
respond_status(d, t) ==
    LET task == tasks[d][t] IN
    /\ task.kind = "respond"
    /\ task.pc = "status"
    /\ notifs' = [notifs EXCEPT ![d][task.pos] = Resolve(@, task.accept)]
    /\ mutex' = [mutex EXCEPT ![d] = 0]
    /\ tasks' = [tasks EXCEPT ![d][t].pc = "files"]
    /\ UNCHANGED <<notes, atts, peers, proposals, net, lastOp, suppressed,
                   staging, server, ret>>

\* The staged file is promoted or removed and the response is spawned, with
\* no lock held
respond_files(d, t) ==
    LET task == tasks[d][t]
        peer == notifs[d][task.pos].from_peer
    IN  /\ task.kind = "respond"
        /\ task.pc = "files"
        /\ IF task.accept /\ task.note_id # EmptyString
           THEN /\ notes' = [notes EXCEPT ![d] = Promote(@, task.note_id)]
                /\ UNCHANGED atts
           ELSE IF task.note_id # EmptyString
           THEN /\ notes' = [notes EXCEPT ![d] = Discard(@, task.note_id)]
                /\ atts' = [atts EXCEPT ![d] = RemoveAttachmentsDir(@, task.note_id)]
           ELSE UNCHANGED <<notes, atts>>
        /\ net' = Spawn(d, Url(peer.ip, peer.port, "/sync/response"),
                        [notification_id |-> task.notification_id,
                         accepted        |-> task.accept])
        /\ tasks' = [tasks EXCEPT ![d][t].pc = "done"]
        /\ UNCHANGED <<peers, notifs, proposals, lastOp, suppressed, staging,
                       server, mutex, ret>>

\* Proposals posted in these runs: those for the record id n1
TaskRequests == {req \in EnvRequests : req.note.id = <<"n1">>}

\* Services resolved and removed in these runs: the sender's, and the one
\* whose id is what the removal parses out of a full name
TaskServiceInfos ==
    {info \in ServiceInfos :
        /\ info.port = 8000
        /\ info.addresses # {}
        /\ "id" \in DOMAIN info.properties
        /\ info.properties["id"] \in {device_id(Sender), SplitLast(info.fullname)}}

HandlerArrives ==
    \E req \in TaskRequests :
        /\ Len(tasks[Receiver]) < MaxTasks
        /\ handler_lock(Receiver, req)

HandlerPushes == \E t \in 1..Len(tasks[Receiver]) : handler_store(Receiver, t)

HandlerWrites == \E t \in 1..Len(tasks[Receiver]) : handler_files(Receiver, t)

RespondCalled ==
    \E accept \in BOOLEAN, notification_id \in RespondIds(Receiver) :
        /\ Len(tasks[Receiver]) < MaxTasks
        /\ respond_lock(Receiver, notification_id, accept)

RespondScans == \E t \in 1..Len(tasks[Receiver]) : respond_scan(Receiver, t)

RespondResolves == \E t \in 1..Len(tasks[Receiver]) : respond_status(Receiver, t)

RespondFinishes == \E t \in 1..Len(tasks[Receiver]) : respond_files(Receiver, t)

\* The browse loop handles one event at a time, taking the lock for it
EventResolved ==
    \E info \in TaskServiceInfos :
        /\ Free(Receiver)
        /\ ServiceResolved(Receiver, info)

EventRemoved ==
    \E info \in TaskServiceInfos :
        /\ Free(Receiver)
        /\ ServiceRemoved(Receiver, info.fullname)

NextTasks ==
    \/ HandlerArrives
    \/ HandlerPushes
    \/ HandlerWrites
    \/ RespondCalled
    \/ RespondScans
    \/ RespondResolves
    \/ RespondFinishes
    \/ EventResolved
    \/ EventRemoved

SpecTasks == Init /\ [][NextTasks]_vars

-----------------------------------------------------------------------------
(* Notions the properties share *)

\* The notifications of a device that await a decision
Pending(d) == {i \in 1..Len(notifs[d]) : notifs[d][i].status = "Pending"}

\* The record id of the proposal behind the i-th notification
RecordOf(d, i) == proposals[d][i].request.note.id

\* The i-th notification's proposal is staged: its record file is on disk
Staged(d, i) == StagedPath(RecordOf(d, i)) \in DOMAIN notes[d]

\* The record ids get_notes returns
CommittedIds(d) == {n.id : n \in get_notes(d)}

\* The step is a run of the inbound handler at device d
HandlerStep(d) == Len(proposals'[d]) = Len(proposals[d]) + 1

-----------------------------------------------------------------------------
(* C1: a notification is resolved exactly once *)

\* C1 (as claimed): the status of a notification changes only from Pending,
\* so a notification that is Accepted or Rejected keeps its status whatever
\* respond_to_sync calls follow, and respond_to_sync on it returns an error.
C1_ResolvedOnce ==
    [][\A i \in 1..Len(notifs[Receiver]) :
          notifs[Receiver][i].status # "Pending"
          => /\ notifs'[Receiver][i].status = notifs[Receiver][i].status
             /\ \A accept \in BOOLEAN :
                  respond_to_sync(Receiver, notifs[Receiver][i].id, accept)
                  => ~respond_to_sync_result(Receiver, notifs[Receiver][i].id,
                                             accept).ok]_vars

-----------------------------------------------------------------------------
(* C2: the accept path *)

\* C2 (as claimed): when the only pending notification is the one of a staged
\* proposal for record id r, after respond_to_sync(accept = true) get_notes
\* contains a record with id r and no staged file for r remains.
C2_AcceptCommitsRecord ==
    [][\A i \in Pending(Receiver) :
          /\ Pending(Receiver) = {i}
          /\ Staged(Receiver, i)
          /\ respond_to_sync(Receiver, notifs[Receiver][i].id, TRUE)
          => /\ RecordOf(Receiver, i) \in CommittedIds(Receiver)'
             /\ StagedPath(RecordOf(Receiver, i)) \notin DOMAIN notes'[Receiver]]_vars

-----------------------------------------------------------------------------
(* C3: the reject path *)

\* C3 (as claimed): when the handler has staged a proposal with attachments
\* for a record id r that is not committed, after respond_to_sync(accept =
\* false) on its notification get_notes does not contain r, the staged record
\* file is gone and no attachment file the proposal brought for r remains.
C3_RejectRemovesStaged ==
    [][\A i \in Pending(Receiver) :
          LET r == RecordOf(Receiver, i)
              data == proposals[Receiver][i].request.attachments_data IN
          /\ Staged(Receiver, i)
          /\ r \notin CommittedIds(Receiver)
          /\ DOMAIN data # {}
          /\ respond_to_sync(Receiver, notifs[Receiver][i].id, FALSE)
          => /\ r \notin CommittedIds(Receiver)'
             /\ StagedPath(r) \notin DOMAIN notes'[Receiver]
             /\ \A name \in DOMAIN data :
                  <<r, name>> \notin DOMAIN atts'[Receiver]]_vars

-----------------------------------------------------------------------------
(* C4: resolution acts on the record of the resolved notification *)

\* C4 (as claimed): when proposals for two distinct record ids r1 and r2 are
\* both pending and staged, respond_to_sync on the notification of r1 leaves
\* the staged record of r2 in place with its content, whichever entry the
\* directory listing yields first.
C4_OtherStagedUntouched ==
    [][\A i, j \in Pending(Receiver) : \A accept \in BOOLEAN :
          LET r1 == RecordOf(Receiver, i)
              r2 == RecordOf(Receiver, j) IN
          /\ r1 # r2
          /\ Staged(Receiver, i)
          /\ Staged(Receiver, j)
          /\ respond_to_sync(Receiver, notifs[Receiver][i].id, accept)
          => /\ StagedPath(r2) \in DOMAIN notes'[Receiver]
             /\ notes'[Receiver][StagedPath(r2)] = notes[Receiver][StagedPath(r2)]]_vars

-----------------------------------------------------------------------------
(* C5: attachments travel end to end *)

\* The accepted notifications of the receiver whose proposal the sender's
\* share_notes sent
AcceptedShares ==
    {i \in 1..Len(notifs[Receiver]) :
        /\ notifs[Receiver][i].status = "Accepted"
        /\ proposals[Receiver][i].via = Sender}

\* serve_attachment at the receiver returns, for every entry of the i-th
\* proposal, the bytes the proposal carries
ServesProposal(i) ==
    LET req == proposals[Receiver][i].request IN
    \A name \in DOMAIN req.attachments_data :
        serve_attachment(Receiver, req.note.id, name)
            = Ok(req.attachments_data[name])

\* No proposal for the same record id arrived after the i-th
LatestForRecord(i) ==
    \A j \in (i + 1)..Len(proposals[Receiver]) :
        RecordOf(Receiver, j) # RecordOf(Receiver, i)

-----------------------------------------------------------------------------
(* C6: the peer registry reflects the most recent operation on every id *)

\* The peers whose most recent registry operation was an insertion
LastUpserted(d) ==
    {lastOp[d][k].peer : k \in {x \in DOMAIN lastOp[d] : lastOp[d][x].kind = "upsert"}}

RegistryReflectsLastOp ==
    \A d \in Dev :
        /\ get_peers(d) = LastUpserted(d)
        /\ \A p, q \in get_peers(d) : p.id = q.id => p = q

\* An insertion of a peer already registered with the same fields, and a
\* removal of an id that is not registered, leave get_peers as it was
RegistryIdempotent ==
    \A d \in Dev, info \in ServiceInfos :
        /\ (/\ ~Skipped(d, info)
            /\ ServiceResolved(d, info)
            /\ peers'[d][info.properties["id"]] \in get_peers(d))
           => get_peers(d)' = get_peers(d)
        /\ (/\ ServiceRemoved(d, info.fullname)
            /\ SplitLast(info.fullname) \notin DOMAIN peers[d])
           => get_peers(d)' = get_peers(d)

\* C6: after every sequence of insertions and removals get_peers returns
\* exactly the peers whose most recent operation was an insertion, one entry
\* per id with the fields of the latest insertion; repeating an insertion or
\* removing an absent id changes nothing.
C6_RegistryLastWriter == []RegistryReflectsLastOp /\ [][RegistryIdempotent]_vars

\* A registry where one id was inserted and then removed while another id,
\* inserted twice with different ports, is still registered
C6_Witness ==
    \E d \in Dev :
        /\ \E k \in DOMAIN lastOp[d] :
              lastOp[d][k].kind = "remove" /\ lastOp[d][k].present
        /\ device_id(Sender) \in DOMAIN peers[d]
        /\ peers[d][device_id(Sender)].port # BindInfo(Sender).port
        /\ Cardinality(get_peers(d)) >= 2

-----------------------------------------------------------------------------
(* C7: a device never registers itself *)

\* C7: in every reachable state the peer registry of a device has no entry
\* with the device's own id, whatever services were resolved.
C7_SelfSuppression ==
    \A d \in Dev :
        /\ device_id(d) \notin DOMAIN peers[d]
        /\ \A p \in get_peers(d) : p.id # device_id(d)

\* The device has resolved a service advertising its own id, and registered
\* others
C7_Witness ==
    \E d \in Dev : suppressed[d] /\ get_peers(d) # {}

-----------------------------------------------------------------------------
(* C8: a departing peer leaves the registry *)

\* C8 (as claimed): when device e, advertised under the instance name
\* "{name}_{id}", is registered at device d, the removal event for that
\* instance removes e from the registry of d.
C8_RemovalRemovesPeer ==
    [][\A d \in Dev : \A e \in Dev \ {d} :
          /\ device_id(e) \in DOMAIN peers[d]
          /\ ServiceRemoved(d, OwnServiceInfo(e).fullname)
          => device_id(e) \notin DOMAIN peers'[d]]_vars

-----------------------------------------------------------------------------
(* C9: one fresh pending notification per proposal *)

\* C9: a run of the /sync/request handler appends exactly one notification,
\* whose id no earlier notification carries, with status Pending, the
\* proposal's peer id as from_peer.id and the proposed note's title as
\* note_title, and changes no earlier notification.
C9_OneFreshNotification ==
    [][HandlerStep(Receiver) =>
          LET old == notifs[Receiver]
              new == notifs'[Receiver]
              req == proposals'[Receiver][Len(proposals'[Receiver])].request
              added == new[Len(new)] IN
          /\ Len(new) = Len(old) + 1
          /\ SubSeq(new, 1, Len(old)) = old
          /\ \A i \in 1..Len(old) : old[i].id # added.id
          /\ added.status = "Pending"
          /\ added.from_peer.id = req.peer_id
          /\ added.note_title = req.note.title]_vars

\* Two notifications: the first, from a peer the registry did not know, is
\* resolved; the second came from a registered peer
C9_Witness ==
    /\ Len(notifs[Receiver]) = 2
    /\ notifs[Receiver][1].status # "Pending"
    /\ notifs[Receiver][1].from_peer.ip = LOCALHOST
    /\ notifs[Receiver][2].from_peer.ip # LOCALHOST
    /\ notifs[Receiver][2].status = "Pending"

-----------------------------------------------------------------------------
(* C10: staged records are not listed *)

\* The ids and contents get_notes returns
Records(d) == {<<n.id, n.content>> : n \in get_notes(d)}

\* The ids and contents get_notes returned before any proposal arrived
InitialRecords(d) ==
    {<<file_stem(f), InitialNotes[d][f]>> : f \in DOMAIN InitialNotes[d]}

\* C10: while the proposals received are staged and none is decided,
\* get_notes returns the record ids and contents it returned before they
\* arrived: a proposed id is not added and a committed record keeps its
\* content.
C10_StagedInvisible ==
    (\A i \in 1..Len(notifs[Receiver]) : notifs[Receiver][i].status = "Pending")
    => Records(Receiver) = InitialRecords(Receiver)

\* Undecided proposals are staged for a committed record and for a new one
C10_Witness ==
    /\ Len(notifs[Receiver]) = 2
    /\ \A i \in 1..2 : notifs[Receiver][i].status = "Pending"
    /\ StagedPath(<<"n1">>) \in DOMAIN notes[Receiver]
    /\ StagedPath(<<"n2">>) \in DOMAIN notes[Receiver]
    /\ notes[Receiver][StagedPath(<<"n1">>)] # notes[Receiver][get_note_path(<<"n1">>)]

-----------------------------------------------------------------------------
(* C11: an unknown notification id is refused *)

\* The ids of the notifications a device holds
NotificationIds(d) == {notifs[d][i].id : i \in 1..Len(notifs[d])}

\* C11: respond_to_sync with an id no notification carries returns the error
\* "Notification not found" and changes no notification, no file and no
\* attachment, and spawns no transmission.
C11_UnknownIdRefused ==
    [][\A accept \in BOOLEAN :
       \A notification_id \in RespondIds(Receiver) \ NotificationIds(Receiver) :
          respond_to_sync(Receiver, notification_id, accept)
          => /\ respond_to_sync_result(Receiver, notification_id, accept)
                  = Err("Notification not found")
             /\ UNCHANGED <<notifs, notes, atts, net>>]_vars

\* The call was refused while a proposal was pending and staged
C11_Witness ==
    /\ ret = Returned("respond_to_sync", Err("Notification not found"))
    /\ Pending(Receiver) # {}
    /\ \E i \in Pending(Receiver) : Staged(Receiver, i)

-----------------------------------------------------------------------------
(* C12: sharing with an unknown peer *)

\* C12: share_notes with a peer id that is not in the registry returns an
\* error and spawns no transmission, whatever record ids were requested.
C12_UnknownPeerRefused ==
    [][\A note_ids \in CallNoteIds :
       \A peer_id \in SharePeerIds \ DOMAIN peers[Sender] :
          share_notes(Sender, note_ids, peer_id)
          => /\ share_notes_result(Sender, note_ids, peer_id) = Err("Peer not found")
             /\ net' = net]_vars

\* The call was refused by a sender that has notes to share and a registered
\* peer
C12_Witness ==
    /\ ret = Returned("share_notes", Err("Peer not found"))
    /\ get_peers(Sender) # {}

-----------------------------------------------------------------------------
(* C13: one transmission per record that exists *)

\* How many transmissions for record id x the step spawns
Spawned(x) ==
    LET new == net' (-) net
    IN  BagCardinality([m \in {k \in BagToSet(new) : k.url.path = "/sync/request"
                                                     /\ k.body.note.id = x}
                           |-> new[m]])

\* How often a record id that exists is requested
Requested(note_ids, x) ==
    IF x \in CommittedIds(Sender)
    THEN Cardinality({i \in DOMAIN note_ids : note_ids[i] = x})
    ELSE 0

\* C13: share_notes with a registered peer spawns exactly one transmission for
\* every requested record id that exists and none for an id that does not,
\* and returns Ok whether or not ids are missing.
C13_OnePerExistingRecord ==
    [][\A note_ids \in CallNoteIds :
       \A peer_id \in SharePeerIds \cap DOMAIN peers[Sender] :
          share_notes(Sender, note_ids, peer_id)
          => /\ share_notes_result(Sender, note_ids, peer_id).ok
             /\ \A x \in {note_ids[i] : i \in DOMAIN note_ids} :
                  Spawned(x) = Requested(note_ids, x)
             /\ BagCardinality(net') = BagCardinality(net) +
                  Cardinality({i \in DOMAIN note_ids :
                                  note_ids[i] \in CommittedIds(Sender)})]_vars

\* A batch with a missing id in the middle has returned Ok and both records
\* that exist are in flight
C13_Witness ==
    /\ ret = Returned("share_notes", Ok(<<>>))
    /\ BagCardinality(net) = 2
    /\ \A x \in {<<"n1">>, <<"n2">>} :
          \E m \in BagToSet(net) : m.url.path = "/sync/request" /\ m.body.note.id = x

-----------------------------------------------------------------------------
(* C14: outbound transmissions are fire-and-forget and independent *)

\* The step ends a transmission without its handler having run
EndsWithoutDelivery ==
    /\ BagCardinality(net') < BagCardinality(net)
    /\ notifs' = notifs

\* C14: share_notes returns Ok with every transmission it spawned still in
\* flight and none of the earlier ones touched; a transmission that fails
\* ends alone: the result of the call stays as it was, every other
\* transmission stays in flight and nothing on either device changes.
C14_FireAndForget ==
    [][/\ \A note_ids \in CallNoteIds :
          \A peer_id \in SharePeerIds \cap DOMAIN peers[Sender] :
             share_notes(Sender, note_ids, peer_id)
             => /\ share_notes_result(Sender, note_ids, peer_id) = Ok(<<>>)
                /\ net \sqsubseteq net'
                /\ BagCardinality(net') = BagCardinality(net)
                      + Len(RequestsFor(Sender, get_notes(Sender), note_ids))
       /\ EndsWithoutDelivery
          => /\ \E m \in BagToSet(net) : net' = net (-) SetToBag({m})
             /\ ret' = ret
             /\ UNCHANGED <<notes, atts, peers, proposals>>]_vars

\* Of the two transmissions of one batch the one for n1 failed and the one
\* for n2 was delivered afterwards
C14_Witness ==
    /\ ret = Returned("share_notes", Ok(<<>>))
    /\ net = EmptyBag
    /\ Len(proposals[Receiver]) = 1
    /\ proposals[Receiver][1].via = Sender
    /\ RecordOf(Receiver, 1) = <<"n2">>

-----------------------------------------------------------------------------
(* C15: a proposal names its sender and goes to the target *)

\* C15: every request share_note or share_notes spawns for a registered
\* target peer carries the id and name of the local device, not those of the
\* target, and is addressed to the ip and port the registry holds for the
\* target.
C15_SenderIdentity ==
    [][\A peer_id \in SharePeerIds \cap DOMAIN peers[Sender] :
          (\/ \E note_ids \in CallNoteIds : share_notes(Sender, note_ids, peer_id)
           \/ \E note_id \in CallNoteId : share_note(Sender, note_id, peer_id))
          => LET peer == peers[Sender][peer_id] IN
             \A m \in BagToSet(net' (-) net) :
                /\ m.url = Url(peer.ip, peer.port, "/sync/request")
                /\ m.body.peer_id = device_id(Sender)
                /\ m.body.peer_name = device_name(Sender)
                /\ m.body.peer_id # peer.id
                /\ m.body.peer_name # peer.name]_vars

\* share_note has returned Ok and its request is in flight to the receiver
C15_Witness ==
    /\ ret = Returned("share_note", Ok(<<>>))
    /\ \E m \in BagToSet(net) :
          /\ m.body.note.id = <<"n1">>
          /\ m.url = Url(BindInfo(Receiver).ip, BindInfo(Receiver).port, "/sync/request")
          /\ m.body.peer_id = device_id(Sender)

-----------------------------------------------------------------------------
(* C16: the decision is reported to the peer *)

\* The /sync/response transmission for the i-th notification
ResponseTo(i, accept, ip, port) ==
    [from |-> Receiver,
     url  |-> Url(ip, port, "/sync/response"),
     body |-> [notification_id |-> notifs[Receiver][i].id, accepted |-> accept]]

\* respond_to_sync on the i-th notification spawns exactly the transmission
\* to the given address, and a transmission that ends changes no notification
ReportsTo(Address(_)) ==
    /\ \A i \in 1..Len(notifs[Receiver]) : \A accept \in BOOLEAN :
          respond_to_sync(Receiver, notifs[Receiver][i].id, accept)
          => /\ respond_to_sync_result(Receiver, notifs[Receiver][i].id, accept).ok
             /\ net' = net (+) SetToBag({ResponseTo(i, accept, Address(i).ip,
                                                    Address(i).port)})
    /\ BagCardinality(net') < BagCardinality(net) => notifs' = notifs

\* The address the notification recorded for its sender
RecordedAddress(i) == notifs[Receiver][i].from_peer

\* The address the device that sent the proposal listens at
SenderAddress(i) ==
    IF \E e \in Dev : device_id(e) = proposals[Receiver][i].request.peer_id
    THEN BindInfo(CHOOSE e \in Dev : device_id(e) = proposals[Receiver][i].request.peer_id)
    ELSE RecordedAddress(i)

\* C16 (as claimed): every successful respond_to_sync spawns exactly one
\* /sync/response transmission with the notification id and the decision,
\* addressed to the peer the proposal came from; how the transmission ends
\* changes no stored status.
C16_ResponseToOriginatingPeer == [][ReportsTo(SenderAddress)]_vars

\* C16 (amended): the same, the transmission being addressed to the ip and
\* port stored in the notification's from_peer, which is the sender's
\* registered address only if the sender was in the registry when its
\* proposal arrived and 127.0.0.1:0 otherwise.
C16_ResponseToRecordedAddress == [][ReportsTo(RecordedAddress)]_vars

\* A rejection is in flight to the registered address of the sender while an
\* earlier decision went to the placeholder address
C16_Witness ==
    /\ Len(notifs[Receiver]) = 2
    /\ notifs[Receiver][1].from_peer.ip = LOCALHOST
    /\ notifs[Receiver][1].status = "Accepted"
    /\ notifs[Receiver][2].status = "Rejected"
    /\ ResponseTo(2, FALSE, BindInfo(Sender).ip, BindInfo(Sender).port)
          \in BagToSet(net)

-----------------------------------------------------------------------------
(* C17: failed staging writes do not fail the proposal *)

\* C17: whichever of its writes fail, the handler answers {success: true} and
\* leaves the notifications as they are, its own among them; the record file
\* is staged if its write succeeded, every attachment whose write succeeded
\* is on disk with the bytes sent, and an attachment whose write failed is
\* skipped, the file of that name staying as it was.
C17_PartialStagingAcknowledged ==
    [][\A h \in staging[Receiver] : \A record_ok \in BOOLEAN :
       \A written \in SUBSET DOMAIN h.sync_request.attachments_data :
          handler_write(Receiver, h, record_ok, written)
          => LET note == h.sync_request.note
                 data == h.sync_request.attachments_data IN
             /\ ret' = Returned("/sync/request", Ok([success |-> TRUE]))
             /\ notifs' = notifs
             /\ h.notification_id \in NotificationIds(Receiver)
             /\ record_ok =>
                  /\ StagedPath(note.id) \in DOMAIN notes'[Receiver]
                  /\ notes'[Receiver][StagedPath(note.id)]
                        = NoteContent(note.title, note.content)
             /\ \A n \in written :
                  serve_attachment(Receiver, note.id, n)' = Ok(data[n])
             /\ \A n \in DOMAIN data \ written :
                  serve_attachment(Receiver, note.id, n)'
                     = serve_attachment(Receiver, note.id, n)]_vars

\* The handler has answered for a proposal with two attachments of which one
\* write failed: the record and doc.png are staged, img.png is the file the
\* receiver had, and the notification is pending
C17_Witness ==
    /\ ret = Returned("/sync/request", Ok([success |-> TRUE]))
    /\ Len(notifs[Receiver]) = 1
    /\ notifs[Receiver][1].status = "Pending"
    /\ proposals[Receiver][1].request.peer_id = <<"idX">>
    /\ Staged(Receiver, 1)
    /\ serve_attachment(Receiver, <<"n1">>, "doc.png") = Ok(Png1)
    /\ serve_attachment(Receiver, <<"n1">>, "img.png")
          = Ok(InitialAttachments[Receiver][<< <<"n1">>, "img.png" >>])

-----------------------------------------------------------------------------
\* A device whose bind loop found nothing to bind takes no part in discovery
\* or synchronisation: its handler has taken no proposal, it has no
\* notification, its registry is empty and no other device has it registered
Isolated(d) ==
    /\ proposals[d] = <<>>
    /\ notifs[d] = <<>>
    /\ staging[d] = {}
    /\ peers[d] = EmptyMap
    /\ mdns_registered(d) = {}
    /\ \A e \in Dev : device_id(d) \notin DOMAIN peers[e]

\* C18: when no candidate address binds at start-up, no HTTP handler runs on
\* the device, it publishes no advertisement and no peer is ever added to its
\* registry, while save_note and delete_note can still be called and
\* get_notes lists the notes directory
C18_BindFailureDegrades ==
    \A d \in Dev :
        server[d] = BindFailed =>
            /\ Isolated(d)
            /\ ENABLED SaveNote(d)
            /\ ENABLED DeleteNote(d)
            /\ {n.id : n \in get_notes(d)}
                   = {file_stem(f) : f \in {g \in DOMAIN notes[d] : extension(g) = <<"md">>}}

\* A device that failed to bind has saved a note and deleted another and
\* lists what is left, while the other device serves, has taken a proposal
\* and has discovered itself only
C18_Witness ==
    /\ server[Receiver] = BindFailed
    /\ server[Sender].status = "serving"
    /\ CommittedIds(Receiver) = {<<"n4">>}
    /\ Len(notifs[Sender]) = 1
    /\ suppressed[Sender]

-----------------------------------------------------------------------------
\* C19 (as claimed): in every reachable state, a notification whose status is
\* Accepted or Rejected has no staged record file for its proposal on disk,
\* also when respond_to_sync runs between the handler's push and its writes
C19_ResolvedLeavesNoStagedRecord ==
    \A i \in 1..Len(notifs[Receiver]) :
        notifs[Receiver][i].status # "Pending" => ~Staged(Receiver, i)

-----------------------------------------------------------------------------
\* The handler of h does its writes in this step
WritesOf(h) ==
    /\ h \in staging[Receiver]
    /\ h \notin staging'[Receiver]

\* What get_sync_notifications returns lists the notification of handler h
Listed(h) ==
    \E i \in 1..Len(get_sync_notifications(Receiver)) :
        LET n == get_sync_notifications(Receiver)[i] IN
        /\ n.id = h.notification_id
        /\ n.note_title = h.sync_request.note.title
        /\ n.from_peer.id = h.sync_request.peer_id

\* C20: whenever a handler's staging writes happen, get_sync_notifications
\* already returns, before that step, the notification of the handler's
\* proposal
C20_NotificationBeforeStaging ==
    [][\A h \in staging[Receiver] : WritesOf(h) => Listed(h)]_vars

\* A handler has written its staged record, the request is acknowledged, and
\* the notification pushed before is listed as Pending
C20_Witness ==
    /\ ret = Returned("/sync/request", Ok(sync_request_ack))
    /\ staging[Receiver] = {}
    /\ Len(get_sync_notifications(Receiver)) = 1
    /\ get_sync_notifications(Receiver)[1].status = "Pending"
    /\ Staged(Receiver, 1)

-----------------------------------------------------------------------------
\* C21 (as claimed): in every reachable state, a task that is inside a
\* directory scan or a file read or write does not hold the AppState mutex
C21_NoIoUnderLock ==
    \A d \in Dev :
        \A t \in 1..Len(tasks[d]) :
            tasks[d][t].pc \in IoSteps => mutex[d] # t

-----------------------------------------------------------------------------
\* The handler tasks that have pushed their notification
Pushed(d) ==
    {t \in 1..Len(tasks[d]) :
        tasks[d][t].kind = "handler" /\ tasks[d][t].pc \in {"write", "done"}}

\* The respond_to_sync tasks that have set the status of a notification
Decided(d) ==
    {t \in 1..Len(tasks[d]) :
        tasks[d][t].kind = "respond" /\ tasks[d][t].pc \in {"files", "done"}
                                     /\ tasks[d][t].pos # 0}

\* C22: whatever the interleaving of discovery events, inbound proposals and
\* respond_to_sync calls, the registry is what the operations give one after
\* the other in the order of their blocks: every proposal whose push is over
\* has its own notification, in push order, no decision is undone by a push,
\* and the peer map holds exactly the peers whose last event was an upsert
C22_RegistrySerialized ==
    /\ Len(notifs[Receiver]) = Cardinality(Pushed(Receiver))
    /\ Len(notifs[Receiver]) = Len(proposals[Receiver])
    /\ \A i \in 1..Len(notifs[Receiver]) :
           /\ notifs[Receiver][i].note_title = proposals[Receiver][i].request.note.title
           /\ notifs[Receiver][i].from_peer.id = proposals[Receiver][i].request.peer_id
           /\ \A j \in 1..Len(notifs[Receiver]) :
                  notifs[Receiver][i].id = notifs[Receiver][j].id => i = j
    /\ \A t \in Decided(Receiver) :
           notifs[Receiver][tasks[Receiver][t].pos].status # "Pending"
    /\ RegistryReflectsLastOp

\* Two proposals were in their handlers at the same time, the second entering
\* its block before the first had written its files; both have their
\* notification, one is decided, and a peer was upserted meanwhile
C22_Witness ==
    /\ Cardinality(Pushed(Receiver)) = 2
    /\ \E t \in Pushed(Receiver) : tasks[Receiver][t].pc = "write"
    /\ Decided(Receiver) # {}
    /\ Len(notifs[Receiver]) = 2
    /\ peers[Receiver] # EmptyMap

-----------------------------------------------------------------------------
\* The staged record files of a device
StagedFiles(d) == {f \in DOMAIN notes[d] : extension(f) = <<"sync">>}

\* The proposal the handler has just taken
Taken(d) == proposals'[d][Len(proposals'[d])].request

\* The provisional location holds at most one staged file for a record id
OneStagedPerId ==
    \A d \in Dev :
        \A f, g \in StagedFiles(d) :
            file_stem(file_stem(f)) = file_stem(file_stem(g)) => f = g

\* A handled proposal leaves its own content staged under its record id,
\* replacing what an earlier proposal for the id had staged, and touches no
\* other staged file
LastProposalStaged ==
    \A d \in Dev :
        HandlerStep(d) =>
            /\ notes'[d][StagedPath(Taken(d).note.id)]
                   = NoteContent(Taken(d).note.title, Taken(d).note.content)
            /\ StagedFiles(d)' = StagedFiles(d) \cup {StagedPath(Taken(d).note.id)}
            /\ \A f \in StagedFiles(d) \ {StagedPath(Taken(d).note.id)} :
                   notes'[d][f] = notes[d][f]

\* C23: at most one staged record file exists per record id, and when a
\* second proposal for an id arrives while one is pending, the staged content
\* is that of the proposal written last
C23_LastWriterStaged == []OneStagedPerId /\ [][LastProposalStaged]_vars

\* Two proposals for the same record id with different content are both
\* pending, and the staged file holds the content of the second
C23_Witness ==
    /\ Len(proposals[Receiver]) = 2
    /\ Pending(Receiver) = {1, 2}
    /\ RecordOf(Receiver, 1) = RecordOf(Receiver, 2)
    /\ proposals[Receiver][1].request.note.content
           # proposals[Receiver][2].request.note.content
    /\ Cardinality(StagedFiles(Receiver)) = 1
    /\ notes[Receiver][StagedPath(RecordOf(Receiver, 2))]
           = NoteContent(proposals[Receiver][2].request.note.title,
                         proposals[Receiver][2].request.note.content)

-----------------------------------------------------------------------------
\* C24: once a notification is Accepted or Rejected no step sets it back to
\* Pending, and no step removes a notification or changes its id: the list
\* only grows at its end
C24_ResolvedNeverPending ==
    [][\A d \in Dev :
           /\ Len(notifs'[d]) >= Len(notifs[d])
           /\ \A i \in 1..Len(notifs[d]) :
                  /\ notifs'[d][i].id = notifs[d][i].id
                  /\ notifs[d][i].status # "Pending"
                         => notifs'[d][i].status # "Pending"]_vars

\* The first of two notifications was accepted, which promoted a staged
\* file, and then responded to again with a rejection; it is Rejected, the
\* other is still Pending, and a peer was registered meanwhile
C24_Witness ==
    /\ Len(notifs[Receiver]) = 2
    /\ notifs[Receiver][1].status = "Rejected"
    /\ notifs[Receiver][2].status = "Pending"
    /\ \E f \in DOMAIN notes[Receiver] : Len(f) = 3 /\ f[2] = "md" /\ f[3] = "md"
    /\ peers[Receiver] # EmptyMap

-----------------------------------------------------------------------------
\* The proposals handled so far, on all devices
Delivered == Len(proposals[Sender]) + Len(proposals[Receiver])

-----------------------------------------------------------------------------
\* The ids whose recorded operation this step has set or replaced
Operated(d) ==
    {k \in DOMAIN lastOp'[d] : k \notin DOMAIN lastOp[d] \/ lastOp'[d][k] # lastOp[d][k]}

\* C26: peers-updated is emitted after a resolution that upserts a peer, and
\* after a removal exactly when a peer was removed; a removal of an id that
\* is not registered and a skipped resolution emit nothing and leave the
\* registry as it was
C26_PeersUpdatedEmission ==
    [][\A d \in Dev :
           /\ \A k \in Operated(d) :
                  IF lastOp'[d][k].kind = "upsert"
                  THEN /\ lastOp'[d][k].emitted
                       /\ k \in DOMAIN peers'[d]
                       /\ peers'[d][k] = lastOp'[d][k].peer
                  ELSE /\ lastOp'[d][k].emitted = (k \in DOMAIN peers[d])
                       /\ k \notin DOMAIN peers'[d]
                       /\ ~lastOp'[d][k].emitted => peers'[d] = peers[d]
           /\ suppressed'[d] # suppressed[d] =>
                  /\ Operated(d) = {}
                  /\ peers'[d] = peers[d]
           /\ Operated(d) = {} => peers'[d] = peers[d]]_vars

\* On one device a removal found its peer and emitted, on the other a removal
\* found none and emitted nothing; the first device has skipped its own
\* service and has a peer registered by an upsert that emitted
C26_Witness ==
    /\ \E k \in DOMAIN lastOp[Receiver] :
           lastOp[Receiver][k].kind = "remove" /\ lastOp[Receiver][k].emitted
    /\ \E k \in DOMAIN lastOp[Sender] :
           lastOp[Sender][k].kind = "remove" /\ ~lastOp[Sender][k].emitted
    /\ suppressed[Receiver]
    /\ \E k \in DOMAIN lastOp[Receiver] :
           lastOp[Receiver][k].kind = "upsert" /\ lastOp[Receiver][k].emitted

-----------------------------------------------------------------------------
\* The browse loop of a device has ended on an error of the event stream
DiscoveryStopped(d) == server[d].status = "ended"

\* C27 (as claimed): after an error of the discovery event stream no peer is
\* added or removed and the registered peers stay listed, and the inbound
\* handler keeps accepting /sync/request
C27_StreamErrorStopsDiscoveryOnly ==
    /\ [](\A d \in Dev :
              DiscoveryStopped(d) /\ Len(notifs[d]) < MaxStaged => ENABLED RequestAt(d))
    /\ [][\A d \in Dev :
              DiscoveryStopped(d) => DiscoveryStopped(d)' /\ peers'[d] = peers[d]]_vars

-----------------------------------------------------------------------------
\* The address can be bound on some port of the candidate range
Bindable(ip, free) == \E port \in Ports : [ip |-> ip, port |-> port] \in free

\* C28 (as claimed): if the LAN-facing address can be bound on at least one
\* port of 8000..8019 the listener is bound to and advertises that address;
\* the loopback address is advertised only when the LAN address binds on no
\* candidate port
C28_PrefersLanAddress ==
    [][\A d \in Dev :
           \A env \in BindEnvs(d) :
               (/\ server[d] = Starting
                /\ server'[d] = bind_loop(env.local, env.free)
                /\ env.local # NoLocalIp
                /\ Bindable(env.local, env.free))
               => /\ server'[d].status = "serving"
                  /\ server'[d].ip = env.local]_vars

\* Some candidate address binds on the port
AnyBinds(env, port) ==
    \/ env.local # NoLocalIp /\ [ip |-> env.local, port |-> port] \in env.free
    \/ [ip |-> LOCALHOST, port |-> port] \in env.free
    \/ [ip |-> UNSPECIFIED, port |-> port] \in env.free

\* C28 (amended): the listener takes the lowest port of 8000..8019 on which
\* any candidate address binds; on that port the LAN-facing address is
\* preferred and advertised, and the loopback address is advertised
\* otherwise. With no such port the loop fails.
C28_FirstPortThenLanAddress ==
    [][\A d \in Dev :
           \A env \in BindEnvs(d) :
               (/\ server[d] = Starting
                /\ server'[d] = bind_loop(env.local, env.free))
               => IF \A port \in Ports : ~AnyBinds(env, port)
                  THEN server'[d] = BindFailed
                  ELSE /\ server'[d].status = "serving"
                       /\ server'[d].port \in Ports
                       /\ AnyBinds(env, server'[d].port)
                       /\ \A port \in Ports :
                              port < server'[d].port => ~AnyBinds(env, port)
                       /\ server'[d].ip =
                              IF /\ env.local # NoLocalIp
                                 /\ [ip |-> env.local, port |-> server'[d].port] \in env.free
                              THEN env.local
                              ELSE LOCALHOST]_vars

\* One device serves on its LAN address; the other, whose LAN address would
\* bind on port 8004 only, serves on the loopback address at port 8003
C28_Witness ==
    /\ server[Receiver] = Serving(BindInfo(Receiver))
    /\ server[Sender] = Serving([ip |-> LOCALHOST, port |-> 8003])
    /\ \E env \in BindEnvs(Sender) :
           /\ Bindable(env.local, env.free)
           /\ bind_loop(env.local, env.free) = server[Sender]

-----------------------------------------------------------------------------
\* The notification the handler has just pushed
Newest(d) == notifs'[d][Len(notifs'[d])]

\* C29: a proposal whose sender id is not in the peer map yields a Pending
\* notification whose from_peer has the sender's id and name and the address
\* 127.0.0.1 port 0; a proposal whose sender is registered yields one whose
\* from_peer is the registered entry; the handler leaves the peer map as it
\* was in both cases
C29_FromPeerOfProposal ==
    [][\A d \in Dev :
           HandlerStep(d) =>
               /\ Len(notifs'[d]) = Len(notifs[d]) + 1
               /\ Newest(d).status = "Pending"
               /\ peers'[d] = peers[d]
               /\ Newest(d).from_peer =
                      IF Taken(d).peer_id \in DOMAIN peers[d]
                      THEN peers[d][Taken(d).peer_id]
                      ELSE [id   |-> Taken(d).peer_id,
                            name |-> Taken(d).peer_name,
                            ip   |-> "127.0.0.1",
                            port |-> 0]]_vars

\* The sender's first proposal arrived before the sender was discovered and
\* its second after: the first notification has the placeholder address, the
\* second the registered entry, and the sender is the only peer registered
C29_Witness ==
    /\ Len(notifs[Receiver]) = 2
    /\ DOMAIN peers[Receiver] = {device_id(Sender)}
    /\ notifs[Receiver][1].from_peer.id = device_id(Sender)
    /\ notifs[Receiver][1].from_peer.name = device_name(Sender)
    /\ notifs[Receiver][1].from_peer.port = 0
    /\ notifs[Receiver][2].from_peer = peers[Receiver][device_id(Sender)]
    /\ notifs[Receiver][2].from_peer.port = BindInfo(Sender).port

-----------------------------------------------------------------------------
\* The attachment names get_notes lists for a committed record
ListedAttachments(d, id) ==
    UNION {n.attachments : n \in {x \in get_notes(d) : x.id = id}}

\* C30 (as claimed): a proposal for a record id that is already committed
\* leaves, when it is taken in, the attachment names get_notes lists for the
\* record and the bytes serve_attachment returns for each of them as they were
C30_CommittedAttachmentsKept ==
    [][\A d \in Dev :
           \A id \in CommittedIds(d) :
               HandlerStep(d) /\ Taken(d).note.id = id =>
                   /\ ListedAttachments(d, id)' = ListedAttachments(d, id)
                   /\ \A name \in ListedAttachments(d, id) :
                          serve_attachment(d, id, name)'
                              = serve_attachment(d, id, name)]_vars

-----------------------------------------------------------------------------
\* Every record and attachment the device held at the start still exists
\* with the bytes it had
CommittedKept(d) ==
    /\ \A f \in DOMAIN InitialNotes[d] :
           f \in DOMAIN notes[d] /\ notes[d][f] = InitialNotes[d][f]
    /\ \A p \in DOMAIN InitialAttachments[d] :
           p \in DOMAIN atts[d] /\ atts[d][p] = InitialAttachments[d][p]

\* C31 (as claimed): when the only proposal a device has received is
\* rejected, every record and every attachment that was committed before the
\* proposal arrived still exists with unchanged bytes
C31_RejectRestoresCommitted ==
    [][\A d \in Dev :
           (/\ Len(notifs[d]) = 1
            /\ notifs[d][1].status = "Pending"
            /\ notifs'[d][1].status = "Rejected")
           => CommittedKept(d)']_vars

-----------------------------------------------------------------------------
\* get_notes on device d returns a record with the title and the content of
\* the record note
SameRecordListed(d, note) ==
    \E n \in get_notes(d) : n.title = note.title /\ n.content = note.content

\* C32 (as claimed): when a record that get_notes returns on the sender is
\* shared and its staged proposal is accepted, get_notes on the receiver
\* returns a record with the same title and the same content
C32_RecordRoundTrip ==
    [][\A i \in 1..Len(notifs[Receiver]) :
           (/\ notifs[Receiver][i].status = "Pending"
            /\ notifs'[Receiver][i].status = "Accepted"
            /\ Staged(Receiver, i))
           => \A s \in get_notes(Sender) :
                  s.id = RecordOf(Receiver, i)
                  => SameRecordListed(Receiver, s)']_vars

====
